---- MODULE Spec2Model ----
(***************************************************************************)
(* Model of the trivia API of backend/flaskr/__init__.py: the request      *)
(* handlers created by create_app, the pager paginate_questions, and the   *)
(* quiz picker play_quiz with its retry loop.  The question table is the   *)
(* only state shared between requests.                                     *)
(***************************************************************************)
EXTENDS Integers, Sequences, FiniteSets, TLC

VARIABLES
  store,               \* the question table, rows in insertion (= id) order
  nextId,              \* next value of the table's id sequence
  categories,          \* the category table (never written by the handlers)
  request,             \* the request being (or last) handled
  response,            \* the response of the last completed request
  pc,                  \* position of the handler: idle, or in play_quiz selecting (at
                       \* the loop's test), retrying (in its body), exhausted, done, failed
  quiz,                \* play_quiz: the candidate pool
  new_question,        \* play_quiz: the formatted question last drawn
  deleted              \* history: ids a DELETE has answered success for

vars == <<store, nextId, categories, request, response, pc, quiz, new_question, deleted>>

----------------------------------------------------------------------------
(* Bounds *)

MaxId == 2            \* ids the sequence may issue; ids of the tables a quiz is played on
MaxPrev == 3          \* longest previous_questions list of a quiz request
MaxN == 21            \* largest table of the pager specification
MaxPage == 4          \* page numbers of the pager specification: -MaxPage .. MaxPage
NumCat == 2           \* categories in the category table

QUESTIONS_PER_PAGE == 10

----------------------------------------------------------------------------
(* Python / JSON values: None, integers, strings (sequences of characters) *)
(* and dicts, told apart by a tag as Python's == tells them apart.         *)

PyNone == [t |-> "none", v |-> 0]
PyInt(i) == [t |-> "int", v |-> i]
PyStr(s) == [t |-> "str", v |-> s]
PyDict(d) == [t |-> "dict", v |-> d]

PyEq(a, b) == a.t = b.t /\ a.v = b.v

\* truthiness as in `if search:`
Truthy(x) ==
  CASE x.t = "none" -> FALSE
    [] x.t = "int" -> x.v # 0
    [] x.t = "str" -> Len(x.v) > 0
    [] OTHER -> TRUE

Min(a, b) == IF a < b THEN a ELSE b
Max(a, b) == IF a > b THEN a ELSE b

\* list[start:end] of Python, for any integers start and end
PySlice(s, start, end) ==
  LET n == Len(s)
      norm(i) == IF i < 0 THEN Max(i + n, 0) ELSE Min(i, n)
      lo == norm(start)
      hi == norm(end)
  IN IF lo >= hi THEN <<>> ELSE [k \in 1..(hi - lo) |-> s[lo + k]]

----------------------------------------------------------------------------
(* The store: models.py (Question, Category) over the database.            *)

\* the category ids and question texts requests are drawn from
CategoryIds == 1..NumCat
Texts == {<<"A", "b">>}
SearchTerms == {<<"a", "B">>, <<"z">>}

Lower(c) == CASE c = "A" -> "a" [] c = "B" -> "b" [] c = "C" -> "c" [] OTHER -> c

\* column.ilike("%term%"): case-insensitive substring match
ILike(text, term) ==
  \E k \in 0..(Len(text) - Len(term)) :
    \A j \in 1..Len(term) : Lower(text[k + j]) = Lower(term[j])

\* Question(question=..., answer=..., category=..., difficulty=...) with the id
\* the table's sequence gives it
Question(id, question, answer, category, difficulty) ==
  [id |-> id, question |-> question, answer |-> answer,
   category |-> category, difficulty |-> difficulty]

\* Question.format(): the dict sent to the client
Format(q) ==
  PyDict([id |-> q.id, question |-> q.question, answer |-> q.answer,
          category |-> q.category, difficulty |-> q.difficulty])

\* Question.query.all()
QueryAll(s) == s

RECURSIVE InsertSorted(_, _)
InsertSorted(q, s) ==
  IF s = <<>> THEN <<q>>
  ELSE IF q.id < Head(s).id THEN <<q>> \o s
  ELSE <<Head(s)>> \o InsertSorted(q, Tail(s))

RECURSIVE OrderById(_)
\* Question.query.order_by(Question.id).all()
OrderById(s) == IF s = <<>> THEN <<>> ELSE InsertSorted(Head(s), OrderById(Tail(s)))

\* Question.query.filter(Question.id == question_id)
FilterById(s, question_id) == SelectSeq(s, LAMBDA q : q.id = question_id)

\* Question.query.filter(Question.question.ilike("%search%"))
FilterILike(s, search) ==
  SelectSeq(s, LAMBDA q : q.question.t = "str" /\ ILike(q.question.v, search.v))

\* filter on the category column, the comparand coerced by the column type
FilterByCategory(s, category_id) ==
  SelectSeq(s, LAMBDA q : PyEq(q.category, PyInt(category_id)))

\* question.insert(): add and commit
Insert(s, q) == Append(s, q)

\* question.delete(): delete and commit
Delete(s, q) == SelectSeq(s, LAMBDA r : r # q)

Ids(s) == {s[i].id : i \in 1..Len(s)}

\* the ids of a list of formatted questions
FormattedIds(l) == {l[i].v.id : i \in 1..Len(l)}

\* the category table: all of CategoryIds, or empty
CategoryRows == [c \in CategoryIds |-> [id |-> c, type |-> ToString(c)]]

----------------------------------------------------------------------------
(* Responses *)

\* jsonify(body) with status 200
Json(body) == [status |-> 200, body |-> body]

\* the three error handlers
not_found == [status |-> 404, body |-> [success |-> FALSE, error |-> 404, message |-> "resource not found"]]
unprocessable == [status |-> 422, body |-> [success |-> FALSE, error |-> 422, message |-> "unprocessable"]]
bad_request == [status |-> 400, body |-> [success |-> FALSE, error |-> 400, message |-> "bad request"]]

\* abort(code) reaching the application: the registered handler answers
Abort(code) ==
  CASE code = 404 -> not_found
    [] code = 422 -> unprocessable
    [] code = 400 -> bad_request

\* an exception no handler catches: the framework answers 500
InternalServerError == [status |-> 500, body |-> [success |-> FALSE]]

\* the outcome of a try block: an exception raised (abort included), or a
\* response together with the table it leaves
Raised == [raised |-> TRUE]
Returned(resp, s) == [raised |-> FALSE, response |-> resp, store |-> s]

\* try: ... except: abort(code)
TryExcept(outcome, code, s) ==
  IF outcome.raised THEN Returned(Abort(code), s) ELSE outcome

----------------------------------------------------------------------------
(* paginate_questions *)

\* request.args.get("page", 1, type=int)
PageArg(arg) == IF arg.t = "int" THEN arg.v ELSE 1

\* a pager that starts each page one page late
paginate_questions_late(pageArg, selection) ==
  LET page == PageArg(pageArg)
      start == page * QUESTIONS_PER_PAGE
      end == start + QUESTIONS_PER_PAGE
      questions == [i \in 1..Len(selection) |-> Format(selection[i])]
  IN PySlice(questions, start, end)

paginate_questions(pageArg, selection) ==
  LET page == PageArg(pageArg)
      start == (page - 1) * QUESTIONS_PER_PAGE
      end == start + QUESTIONS_PER_PAGE
      questions == [i \in 1..Len(selection) |-> Format(selection[i])]
  IN PySlice(questions, start, end)

----------------------------------------------------------------------------
(* The handlers.  A handler runs to completion before the next request is  *)
(* taken; only play_quiz, with its retry loop, takes more than one step.   *)

Idle == pc \notin {"selecting", "retrying"}

\* the handler answers and the application waits for the next request
Reply(req, resp) ==
  /\ request' = req
  /\ response' = resp
  /\ pc' = "idle"
  /\ quiz' = <<>>
  /\ new_question' = PyNone

\* the page arguments the handler specification sends: absent, or a number
PageArgs == {PyNone, PyInt(2)}

\* the categories_dict built by the two listing handlers
CategoriesDict(cats) == [i \in 1..Len(cats) |-> cats[i].type]

\* GET /categories
retrieve_categories ==
  /\ Idle
  /\ LET cats == categories
         categories_dict == CategoriesDict(cats)
     IN Reply([op |-> "retrieve_categories"],
              IF Len(cats) = 0 THEN Abort(404)
              ELSE Json([success |-> TRUE, categories |-> categories_dict]))
  /\ UNCHANGED <<store, nextId, categories, deleted>>

\* the response of GET /questions?page=pageArg on table s
RetrieveQuestionsResponse(pageArg, s, cats) ==
  LET selection == QueryAll(s)
      current_questions == paginate_questions(pageArg, selection)
  IN IF Len(current_questions) = 0 THEN Abort(404)
     ELSE Json([success |-> TRUE,
                questions |-> current_questions,
                total_questions |-> Len(selection),
                categories |-> CategoriesDict(cats)])

\* GET /questions
retrieve_questions(pageArg) ==
  /\ Idle
  /\ Reply([op |-> "retrieve_questions", page |-> pageArg],
           RetrieveQuestionsResponse(pageArg, store, categories))
  /\ UNCHANGED <<store, nextId, categories, deleted>>

\* a delete_question that answers without deleting the row
DeleteTryKeep(question_id, pageArg, s) ==
  LET found == FilterById(s, question_id)
  IN IF Len(found) = 0 THEN Raised
     ELSE LET selection == QueryAll(s)
              current_questions == paginate_questions(pageArg, selection)
          IN Returned(Json([success |-> TRUE,
                            deleted |-> question_id,
                            questions |-> current_questions,
                            total_questions |-> Len(selection) - 1]), s)

\* the try block of delete_question
DeleteTry(question_id, pageArg, s) ==
  LET found == FilterById(s, question_id)
  IN IF Len(found) = 0 THEN Raised          \* abort(404), raised inside the try
     ELSE LET question == found[1]
              after == Delete(s, question)
              selection == QueryAll(after)
              current_questions == paginate_questions(pageArg, selection)
          IN Returned(Json([success |-> TRUE,
                            deleted |-> question_id,
                            questions |-> current_questions,
                            total_questions |-> Len(selection)]), after)

\* DELETE /questions/<question_id>
delete_question(question_id, pageArg) ==
  /\ Idle
  /\ LET out == TryExcept(DeleteTry(question_id, pageArg, store), 422, store)
     IN /\ Reply([op |-> "delete_question", question_id |-> question_id, page |-> pageArg],
                 out.response)
        /\ store' = out.store
        /\ deleted' = IF out.response.status = 200 THEN deleted \cup {question_id} ELSE deleted
  /\ UNCHANGED <<nextId, categories>>

\* a required-fields test that forgets the category
MissingFieldNoCategory(new_question_, new_answer, new_category, new_difficulty) ==
  \/ new_question_ = PyNone
  \/ new_answer = PyNone
  \/ new_difficulty = PyNone

\* the required-fields test of create_question
MissingField(new_question_, new_answer, new_category, new_difficulty) ==
  \/ new_question_ = PyNone
  \/ new_answer = PyNone
  \/ new_difficulty = PyNone
  \/ new_category = PyNone

\* a create_question that fetches the list before it inserts
CreateTryStale(body, pageArg, s, id) ==
  IF Truthy(body.search)
  THEN LET selection == FilterILike(s, body.search)
           current_questions == paginate_questions(pageArg, selection)
       IN Returned(Json([success |-> TRUE,
                         questions |-> current_questions,
                         total_questions |-> Len(QueryAll(s))]), s)
  ELSE IF MissingField(body.question, body.answer, body.category, body.difficulty)
  THEN Raised
  ELSE LET question == Question(id, body.question, body.answer, body.category, body.difficulty)
           selection == OrderById(s)
           after == Insert(s, question)
           current_questions == paginate_questions(pageArg, selection)
       IN Returned(Json([success |-> TRUE,
                         created |-> question.id,
                         questions |-> current_questions,
                         total_questions |-> Len(selection)]), after)

\* the try block of create_question; id is the id the table gives a new row
CreateTry(body, pageArg, s, id) ==
  IF Truthy(body.search)
  THEN LET selection == FilterILike(s, body.search)
           current_questions == paginate_questions(pageArg, selection)
       IN Returned(Json([success |-> TRUE,
                         questions |-> current_questions,
                         total_questions |-> Len(QueryAll(s))]), s)
  ELSE IF MissingField(body.question, body.answer, body.category, body.difficulty)
  THEN Raised                                \* abort(422), raised inside the try
  ELSE LET question == Question(id, body.question, body.answer, body.category, body.difficulty)
           after == Insert(s, question)
           selection == OrderById(after)
           current_questions == paginate_questions(pageArg, selection)
       IN Returned(Json([success |-> TRUE,
                         created |-> question.id,
                         questions |-> current_questions,
                         total_questions |-> Len(selection)]), after)

\* the bodies POST /questions is sent: the four fields, each present or not,
\* with no or an empty search, or a search term alone
CreateBodies ==
  [question : {PyNone} \cup {PyStr(t) : t \in Texts},
   answer : {PyNone, PyStr(<<"x">>)},
   category : {PyNone} \cup {PyInt(c) : c \in CategoryIds},
   difficulty : {PyNone, PyInt(1)},
   search : {PyNone, PyStr(<<>>)}]
  \cup
  [question : {PyNone} \cup {PyStr(t) : t \in Texts},
   answer : {PyNone},
   category : {PyNone},
   difficulty : {PyNone},
   search : {PyStr(t) : t \in SearchTerms}]

\* POST /questions
create_question(body, pageArg) ==
  /\ Idle
  /\ LET out == TryExcept(CreateTry(body, pageArg, store, nextId), 422, store)
         inserted == out.store # store
     IN /\ inserted => nextId <= MaxId
        /\ Reply([op |-> "create_question", body |-> body, page |-> pageArg], out.response)
        /\ store' = out.store
        /\ nextId' = IF inserted THEN nextId + 1 ELSE nextId
  /\ UNCHANGED <<categories, deleted>>

\* the try block of search_questions
SearchTry(search, pageArg, s) ==
  IF Truthy(search)
  THEN LET selection == FilterILike(s, search)
           paginated == paginate_questions(pageArg, selection)
       IN Returned(Json([success |-> TRUE,
                         questions |-> paginated,
                         total_questions |-> Len(selection)]), s)
  ELSE Raised                                \* selection is unbound: UnboundLocalError

\* POST /questions/search
search_questions(search, pageArg) ==
  /\ Idle
  /\ LET out == TryExcept(SearchTry(search, pageArg, store), 404, store)
     IN Reply([op |-> "search_questions", searchTerm |-> search, page |-> pageArg], out.response)
  /\ UNCHANGED <<store, nextId, categories, deleted>>

\* the response of GET /categories/<category_id>/questions on table s
QuestionsByCategoryResponse(category_id, s) ==
  LET questions == FilterByCategory(s, category_id)
  IN Json([success |-> TRUE,
           questions |-> [i \in 1..Len(questions) |-> Format(questions[i])],
           total_questions |-> Len(questions),
           current_category |-> category_id])

\* GET /categories/<category_id>/questions
retrieve_questions_by_category(category_id) ==
  /\ Idle
  /\ Reply([op |-> "retrieve_questions_by_category", category_id |-> category_id],
           QuestionsByCategoryResponse(category_id, store))
  /\ UNCHANGED <<store, nextId, categories, deleted>>

----------------------------------------------------------------------------
(* play_quiz *)

PyList(l) == [t |-> "list", v |-> l]

\* what a client may put in previous_questions: question ids, or the
\* formatted questions it was served
PrevElems(s) == {PyInt(i) : i \in 1..MaxId} \cup {Format(s[i]) : i \in 1..Len(s)}
PrevLists(s) == UNION {[1..n -> PrevElems(s)] : n \in 0..MaxPrev}
PreviousQuestions(s) == {PyNone} \cup {PyList(l) : l \in PrevLists(s)}
QuizCategories == {PyNone} \cup {PyDict([id |-> c]) : c \in 0..NumCat}

\* the candidate pool
QuizPool(category, s) ==
  IF category.v.id = 0 THEN QueryAll(s) ELSE FilterByCategory(s, category.v.id)

\* if_used: `new_question in previous_questions`
if_used(nq, previous_questions) ==
  \E i \in 1..Len(previous_questions.v) : PyEq(previous_questions.v[i], nq)

Pending == [status |-> 0, body |-> [pending |-> TRUE]]

\* POST /quizzes, up to the first draw
play_quiz(previous_questions, category) ==
  /\ Idle
  /\ request' = [op |-> "play_quiz", previous_questions |-> previous_questions,
                 quiz_category |-> category]
  /\ IF PyEq(category, PyNone) \/ PyEq(previous_questions, PyNone)
     THEN /\ response' = Abort(422)
          /\ pc' = "failed"
          /\ quiz' = <<>>
          /\ new_question' = PyNone
     ELSE LET pool == QuizPool(category, store)
          IN /\ quiz' = pool
             /\ IF Len(pool) = 0
                THEN \* random.choice of an empty list: IndexError, caught by nothing
                     /\ response' = InternalServerError
                     /\ pc' = "failed"
                     /\ new_question' = PyNone
                ELSE /\ \E i \in 1..Len(pool) : new_question' = Format(pool[i])
                     /\ response' = Pending
                     /\ pc' = "selecting"
  /\ UNCHANGED <<store, nextId, categories, deleted>>

\* the loop's test holds: the question drawn is in previous_questions
play_quiz_used ==
  /\ pc = "selecting"
  /\ if_used(new_question, request.previous_questions)
  /\ pc' = "retrying"
  /\ UNCHANGED <<store, nextId, categories, request, response, quiz, new_question, deleted>>

\* the loop's body, its draw being quiz[i]
play_quiz_draw(i) ==
  /\ pc = "retrying"
  /\ i \in 1..Len(quiz)
  /\ new_question' = Format(quiz[i])
  /\ IF Len(request.previous_questions.v) = Len(quiz)
     THEN /\ response' = Json([success |-> TRUE])
          /\ pc' = "exhausted"
     ELSE /\ pc' = "selecting"
          /\ UNCHANGED response
  /\ UNCHANGED <<store, nextId, categories, request, quiz, deleted>>

play_quiz_retry == \E i \in 1..MaxId : play_quiz_draw(i)

\* the loop's test fails: the question drawn is returned
play_quiz_return ==
  /\ pc = "selecting"
  /\ ~if_used(new_question, request.previous_questions)
  /\ response' = Json([success |-> TRUE, question |-> new_question])
  /\ pc' = "done"
  /\ UNCHANGED <<store, nextId, categories, request, quiz, new_question, deleted>>

----------------------------------------------------------------------------
(* Specifications *)

NoRequest == [op |-> "none"]

Init ==
  /\ store = <<>>
  /\ nextId = 1
  /\ categories \in {<<>>, CategoryRows}
  /\ request = NoRequest
  /\ response = Pending
  /\ pc = "idle"
  /\ quiz = <<>>
  /\ new_question = PyNone
  /\ deleted = {}

Next ==
  \/ retrieve_categories
  \/ \E pageArg \in PageArgs : retrieve_questions(pageArg)
  \/ \E question_id \in 1..(MaxId + 1), pageArg \in PageArgs : delete_question(question_id, pageArg)
  \/ \E body \in CreateBodies, pageArg \in PageArgs : create_question(body, pageArg)
  \/ \E search \in {PyNone, PyStr(<<>>)} \cup {PyStr(t) : t \in SearchTerms}, pageArg \in PageArgs :
       search_questions(search, pageArg)
  \/ \E category_id \in 0..(NumCat + 1) : retrieve_questions_by_category(category_id)

Spec == Init /\ [][Next]_vars

\* a table of rows with ids 1..n, as n inserts leave it
InitialRows(n) ==
  [i \in 1..n |-> Question(i, PyStr(<<"A", "b">>), PyStr(<<"x">>), PyInt(1 + (i % NumCat)), PyInt(1))]

\* The quiz picker, on every table that inserts and deletes leave of ids 1..MaxId.
QuizTables == {SelectSeq(InitialRows(MaxId), LAMBDA q : q.id \in S) : S \in SUBSET (1..MaxId)}

InitQuiz ==
  /\ store \in QuizTables
  /\ nextId = MaxId + 1
  /\ categories = CategoryRows
  /\ request = NoRequest
  /\ response = Pending
  /\ pc = "idle"
  /\ quiz = <<>>
  /\ new_question = PyNone
  /\ deleted = {}

NextQuiz ==
  \/ \E previous_questions \in PreviousQuestions(store), category \in QuizCategories :
       play_quiz(previous_questions, category)
  \/ play_quiz_used
  \/ play_quiz_retry
  \/ play_quiz_return

SpecQuiz == InitQuiz /\ [][NextQuiz]_vars

\* the random draws are fair: a question that can be drawn again and again
\* is drawn, and a running handler takes its next step
FairQuiz ==
  /\ SpecQuiz
  /\ WF_vars(play_quiz_return)
  /\ WF_vars(play_quiz_used)
  /\ \A i \in 1..MaxId : SF_vars(play_quiz_draw(i))

\* The pager alone, over tables large enough to span pages.

WidePageArgs == {PyNone, PyStr(<<"x">>)} \cup {PyInt(p) : p \in (0 - MaxPage)..MaxPage}

\* paginate_questions applied to the whole table
paginate_call(pageArg) ==
  /\ Idle
  /\ Reply([op |-> "paginate_questions", page |-> pageArg],
           [status |-> 0, body |-> [result |-> paginate_questions(pageArg, QueryAll(store))]])
  /\ UNCHANGED <<store, nextId, categories, deleted>>

InitPage ==
  /\ \E n \in 0..MaxN : store = InitialRows(n) /\ nextId = n + 1
  /\ categories = CategoryRows
  /\ request = NoRequest
  /\ response = Pending
  /\ pc = "idle"
  /\ quiz = <<>>
  /\ new_question = PyNone
  /\ deleted = {}

NextPage ==
  \/ \E pageArg \in WidePageArgs : paginate_call(pageArg)
  \/ \E pageArg \in WidePageArgs : retrieve_questions(pageArg)

SpecPage == InitPage /\ [][NextPage]_vars

----------------------------------------------------------------------------
(* Properties *)

\* the page number a request addresses, and the ids a response lists
PageOf(req) == PageArg(req.page)
PrevIds(previous_questions) ==
  {previous_questions.v[i].v : i \in 1..Len(previous_questions.v)}
ListOfIds(previous_questions) ==
  /\ previous_questions.t = "list"
  /\ \A i \in 1..Len(previous_questions.v) : previous_questions.v[i].t = "int"
QuizRequest == request.op = "play_quiz"
FullCreate(body) ==
  /\ ~Truthy(body.search)
  /\ body.question # PyNone /\ body.answer # PyNone
  /\ body.category # PyNone /\ body.difficulty # PyNone
AllPages == {PyNone} \cup {PyInt(p) : p \in (0 - MaxPage)..MaxPage}

\* C1: DELETE /questions/{id} for an id that is not in the store answers 404
\* (success=false, error=404) and leaves the store's questions unchanged.
C1_DeleteMissingAnswers404 ==
  [][(request'.op = "delete_question" /\ request'.question_id \notin Ids(store))
       => /\ response'.status = 404
          /\ response'.body.success = FALSE
          /\ response'.body.error = 404
          /\ store' = store]_vars

\* C2: a quiz response carrying a question never carries one whose id is in the
\* request's previous_questions, when that is a list of ids that does not
\* cover the whole pool.
C2_QuizNeverRepeats ==
  (/\ QuizRequest
   /\ pc = "done"
   /\ ListOfIds(request.previous_questions)
   /\ ~(Ids(quiz) \subseteq PrevIds(request.previous_questions)))
  => response.body.question.v.id \notin PrevIds(request.previous_questions)

\* C3: a quiz request whose previous_questions holds the id of every question
\* of the candidate pool is answered success=true with no question field.
C3_QuizExhaustedAnswersBare ==
  (/\ QuizRequest
   /\ pc \in {"done", "exhausted", "failed"}
   /\ request.quiz_category # PyNone
   /\ ListOfIds(request.previous_questions)
   /\ Ids(QuizPool(request.quiz_category, store)) \subseteq PrevIds(request.previous_questions))
  => /\ response.status = 200
     /\ response.body.success = TRUE
     /\ "question" \notin DOMAIN response.body

\* no listing of the table shows an id a DELETE has answered success for
DeletedNeverListed ==
  \A id \in deleted :
    /\ \A pageArg \in AllPages :
         id \notin FormattedIds(paginate_questions(pageArg, QueryAll(store)))
    /\ \A c \in 0..(NumCat + 1) :
         id \notin FormattedIds(QuestionsByCategoryResponse(c, store).body.questions)
    /\ \A c \in 0..NumCat : id \notin Ids(QuizPool(PyDict([id |-> c]), store))
    /\ (response.status = 200 /\ "questions" \in DOMAIN response.body)
         => id \notin FormattedIds(response.body.questions)

DeleteExistingAnswers ==
  (request'.op = "delete_question" /\ request'.question_id \in Ids(store))
    => /\ response'.status = 200
       /\ response'.body.success = TRUE
       /\ response'.body.deleted = request'.question_id
       /\ response'.body.total_questions = Len(store) - 1
       /\ Len(store') = Len(store) - 1
       /\ request'.question_id \notin Ids(store')
       /\ request'.question_id \in deleted'

\* C4: DELETE /questions/{id} for an id in the store answers success=true with
\* deleted=id and total_questions one less than before, and from then on, through
\* any later requests, the id is in no listing (no page of GET /questions, no
\* GET /categories/{c}/questions, no quiz pool).
C4_DeleteRemovesForGood ==
  /\ [][DeleteExistingAnswers]_vars
  /\ []DeletedNeverListed

\* a question was created after another had been deleted
C4_Witness ==
  /\ deleted # {}
  /\ request.op = "create_question"
  /\ response.status = 200
  /\ "created" \in DOMAIN response.body
  /\ Len(store) > 0

\* C5: POST /questions with the four fields non-null and no truthy search
\* answers success=true with a created id that was not in the store before,
\* total_questions one more than before, and a GET /questions that follows
\* lists the created id on one of its pages.
C5_CreateInserts ==
  [][(request'.op = "create_question" /\ FullCreate(request'.body))
       => /\ response'.status = 200
          /\ response'.body.success = TRUE
          /\ response'.body.created \notin Ids(store)
          /\ response'.body.total_questions = Len(store) + 1
          /\ \E p \in 1..MaxPage :
               LET listing == RetrieveQuestionsResponse(PyInt(p), store', categories')
               IN /\ listing.status = 200
                  /\ response'.body.created \in FormattedIds(listing.body.questions)]_vars

\* a second question has been created
C5_Witness ==
  /\ request.op = "create_question"
  /\ FullCreate(request.body)
  /\ response.status = 200
  /\ response.body.created \in Ids(store)
  /\ response.body.total_questions = 2

\* C6: POST /questions with no truthy search and one of question, answer,
\* category, difficulty missing or null answers 422 and inserts nothing.
C6_CreateMissingFieldAnswers422 ==
  [][(/\ request'.op = "create_question"
      /\ ~Truthy(request'.body.search)
      /\ \/ request'.body.question = PyNone
         \/ request'.body.answer = PyNone
         \/ request'.body.category = PyNone
         \/ request'.body.difficulty = PyNone)
       => /\ response' = unprocessable
          /\ store' = store
          /\ nextId' = nextId]_vars

\* a request lacking only its category was answered 422 on a table with a row
C6_Witness ==
  /\ request.op = "create_question"
  /\ ~Truthy(request.body.search)
  /\ request.body.category = PyNone
  /\ request.body.question # PyNone
  /\ request.body.answer # PyNone
  /\ request.body.difficulty # PyNone
  /\ response.status = 422
  /\ Len(store) > 0

\* C7: every response is a success response or one of the three error
\* responses 400, 404, 422.
C7_OnlyThreeErrorStatuses ==
  response # Pending =>
    \/ response.status = 200 /\ response.body.success = TRUE
    \/ response \in {bad_request, not_found, unprocessable}

\* C8: for a page number p >= 1 and a result set of N rows, paginate_questions
\* returns the rows at 0-based positions (p-1)*10 .. (p-1)*10+9 that exist, in
\* order: min(10, max(0, N-(p-1)*10)) of them, never more than 10.
C8_PageIsTheSlice ==
  (request.op = "paginate_questions" /\ PageOf(request) >= 1)
  => LET p == PageOf(request)
         N == Len(store)
         result == response.body.result
         length == Min(10, Max(0, N - (p - 1) * 10))
     IN /\ Len(result) = length
        /\ Len(result) <= 10
        /\ \A k \in 1..length : result[k] = Format(store[(p - 1) * 10 + k])

\* the second page of a table whose second page is not full
C8_Witness ==
  /\ request.op = "paginate_questions"
  /\ PageOf(request) = 2
  /\ Len(store) = 15
  /\ Len(response.body.result) = 5

\* C9: under fair draws, a quiz request in its retry loop ends exhausted or done.
C9_QuizTerminates == (pc \in {"selecting", "retrying"}) ~> (pc \in {"exhausted", "done"})

\* C10: a page number that addresses no row (p < 1, or (p-1)*10 >= N) gets the
\* empty page from paginate_questions and 404 from GET /questions.
C10_OutOfRangePageIsEmpty ==
  (/\ request.op \in {"paginate_questions", "retrieve_questions"}
   /\ \/ PageOf(request) < 1
      \/ (PageOf(request) - 1) * 10 >= Len(store))
  => /\ request.op = "paginate_questions" => response.body.result = <<>>
     /\ request.op = "retrieve_questions" => response = not_found

====
